---- MODULE Spec2Model ----
(***************************************************************************)
(* Model of skdim.lid._PCA.lPCA: the estimator's parameters and fitted     *)
(* attributes, fit(), and the four selection rules _FO, _maxgap, _ratio    *)
(* and _fan applied to the explained-variance spectrum.                    *)
(*                                                                         *)
(* Numbers are exact extended rationals [n, d]: d > 0 is the finite value  *)
(* n/d in lowest terms; d = 0 encodes the non-finite results of a float    *)
(* division by zero: n = 1 is +inf, n = -1 is -inf, n = 0 is NaN.          *)
(* Finite arithmetic is exact: the rounding of float64 is not modelled.    *)
(* Arrays are sequences; numpy indices are 0-based and are kept 0-based in *)
(* the values the rules compute (r, idx, de).                              *)
(***************************************************************************)
EXTENDS Integers, Sequences, FiniteSets

VARIABLES ver, alphaRatio, alphaFO, alphaFan, betaFan, PFan,
          dimension_, gap_, is_fitted_,
          spectrum, explained_var, ret

vars == <<ver, alphaRatio, alphaFO, alphaFan, betaFan, PFan,
          dimension_, gap_, is_fitted_, spectrum, explained_var, ret>>

\* ------------------------------------------------------------ bounds
\* longest spectrum drawn (number of features d)
MaxD == 3
\* spectrum entries are k/2 for k in 0 .. MaxNum
MaxNum == 3

\* ------------------------------------------------------------ numbers
Abs(x) == IF x < 0 THEN -x ELSE x

Sign(x) == IF x > 0 THEN 1 ELSE IF x < 0 THEN -1 ELSE 0

RECURSIVE GCD(_, _)
GCD(a, b) == IF b = 0 THEN a ELSE GCD(b, a % b)

\* the finite value n/d (d # 0) in lowest terms with a positive denominator
Rat(n, d) ==
  LET g == GCD(Abs(n), Abs(d))
      s == Sign(d)
  IN [n |-> (s * n) \div g, d |-> (s * d) \div g]

PosInf == [n |-> 1, d |-> 0]
NegInf == [n |-> -1, d |-> 0]
NaN    == [n |-> 0, d |-> 0]
Zero   == Rat(0, 1)

IsNaN(a) == a.d = 0 /\ a.n = 0
IsFinite(a) == a.d > 0

Add(a, b) == Rat(a.n * b.d + b.n * a.d, a.d * b.d)
Sub(a, b) == Rat(a.n * b.d - b.n * a.d, a.d * b.d)
Mul(a, b) == Rat(a.n * b.n, a.d * b.d)

\* float division of two finite values: x/0 is +inf, -inf or NaN
Div(a, b) ==
  IF b.n = 0 THEN [n |-> Sign(a.n), d |-> 0]
  ELSE Rat(a.n * b.d, a.d * b.n)

\* a > b on floats: false as soon as one side is NaN
Gt(a, b) ==
  /\ ~IsNaN(a)
  /\ ~IsNaN(b)
  /\ \/ a = PosInf /\ b # PosInf
     \/ b = NegInf /\ a # NegInf
     \/ IsFinite(a) /\ IsFinite(b) /\ a.n * b.d > b.n * a.d

\* ------------------------------------------------------------ arrays
\* Python indexing a[i]: 0-based, a negative i counts from the end
At(a, i) == IF i < 0 THEN a[Len(a) + i + 1] ELSE a[i + 1]

\* a[i:] for 0 <= i <= len(a)
From(a, i) == SubSeq(a, i + 1, Len(a))

RECURSIVE SeqSum(_)
SeqSum(a) == IF a = <<>> THEN Zero ELSE Add(SeqSum(SubSeq(a, 1, Len(a) - 1)), a[Len(a)])

\* np.cumsum(a)
CumSum(a) == [i \in 1..Len(a) |-> SeqSum(SubSeq(a, 1, i))]

\* a[:-1] / a[1:]
Gaps(a) == [i \in 1..(Len(a) - 1) |-> Div(a[i], a[i + 1])]

\* np.where(mask)[0]: the 0-based indices of the true entries, ascending
RECURSIVE Where(_)
Where(mask) ==
  IF mask = <<>> THEN <<>>
  ELSE LET rest == Where(SubSeq(mask, 1, Len(mask) - 1))
       IN IF mask[Len(mask)] THEN Append(rest, Len(mask) - 1) ELSE rest

\* sum(mask): the number of true entries
RECURSIVE CountTrue(_)
CountTrue(mask) ==
  IF mask = <<>> THEN 0
  ELSE CountTrue(SubSeq(mask, 1, Len(mask) - 1)) + (IF mask[Len(mask)] THEN 1 ELSE 0)

\* min of a non-empty array of integers
IntMin(a) == CHOOSE x \in {a[i] : i \in 1..Len(a)} : \A j \in 1..Len(a) : x <= a[j]

\* np.nanargmax(g): NaN entries are replaced by -inf, then the first index of
\* the maximum; -1 stands for the ValueError raised on an all-NaN array
NanArgMax(g) ==
  LET h == [i \in 1..Len(g) |-> IF IsNaN(g[i]) THEN NegInf ELSE g[i]]
  IN IF \A i \in 1..Len(g) : IsNaN(g[i]) THEN -1
     ELSE (CHOOSE i \in 1..Len(h) :
             /\ \A j \in 1..Len(h) : ~Gt(h[j], h[i])
             /\ \A j \in 1..(i - 1) : Gt(h[i], h[j])) - 1

\* ------------------------------------------------------------ results
Returned(de, gap, arr) == [status |-> "ok", de |-> de, gap |-> gap, arr |-> arr]
Raised(exc, arr) == [status |-> exc, de |-> 0, gap |-> <<>>, arr |-> arr]

\* ------------------------------------------------------------ rules
\* the tail shared by _FO, _maxgap and _fan
GapReturn(de, gaps, arr) ==
  IF de - 1 < Len(gaps) THEN Returned(de, <<At(gaps, de - 1)>>, arr)
  ELSE Returned(de, <<At(gaps, -1)>>, arr)

\* FO counting the entries that reach the threshold (>= in place of >)
FO_ge(v, aFO) ==
  LET thr  == Mul(aFO, At(v, 0))
      de   == CountTrue([i \in 1..Len(v) |-> ~Gt(thr, v[i])])
      gaps == Gaps(v)
  IN GapReturn(de, gaps, v)

FO(v, aFO) ==
  LET thr  == Mul(aFO, At(v, 0))
      de   == CountTrue([i \in 1..Len(v) |-> Gt(v[i], thr)])
      gaps == Gaps(v)
  IN GapReturn(de, gaps, v)

maxgap(v) ==
  LET gaps == Gaps(v)
      am   == NanArgMax(gaps)
  IN IF am = -1 THEN Raised("ValueError", v)
     ELSE GapReturn(am + 1, gaps, v)

\* ratio comparing the normalized cumulative share sumexp/total with aRatio
ratio_normalized(v, aRatio) ==
  LET sumexp == CumSum(v)
      total  == SeqSum(v)
      idx_threshold == Where([i \in 1..Len(v) |-> Gt(Div(sumexp[i], total), aRatio)])
      de == IF Len(idx_threshold) = 0 THEN Len(v) ELSE IntMin(idx_threshold) + 1
  IN Returned(de, <<>>, v)

ratio(v, aRatio) ==
  LET sumexp == CumSum(v)
      idx_threshold == Where([i \in 1..Len(v) |-> Gt(sumexp[i], aRatio)])
      de == IF Len(idx_threshold) = 0 THEN Len(v) ELSE IntMin(idx_threshold) + 1
  IN Returned(de, <<>>, v)

\* fan reporting the gap of the spectrum as given, not of the shifted one
fan_inputGap(v, P, aFan, bFan) ==
  LET total == SeqSum(v)
      cs    == CumSum(v)
      rs    == Where([i \in 1..Len(v) |-> Gt(Div(cs[i], total), P)])
  IN IF Len(rs) = 0 THEN Raised("IndexError", v)
     ELSE
       LET r       == At(rs, 0)
           tail    == From(v, r)
           sigma   == Div(SeqSum(tail), Rat(Len(tail), 1))
           shifted == [i \in 1..Len(v) |-> Sub(v[i], sigma)]
           gaps    == Gaps(shifted)
           total2  == SeqSum(shifted)
           cs2     == CumSum(shifted)
           cand    == Where([i \in 1..Len(gaps) |-> Gt(gaps[i], aFan)])
                      \o Where([i \in 1..Len(shifted) |-> Gt(Div(cs2[i], total2), bFan)])
       IN IF Len(cand) = 0 THEN Raised("ValueError", shifted)
          ELSE GapReturn(1 + IntMin(cand), Gaps(v), shifted)

fan(v, P, aFan, bFan) ==
  LET total == SeqSum(v)
      cs    == CumSum(v)
      rs    == Where([i \in 1..Len(v) |-> Gt(Div(cs[i], total), P)])
  IN IF Len(rs) = 0 THEN Raised("IndexError", v)
     ELSE
       LET r       == At(rs, 0)
           tail    == From(v, r)
           sigma   == Div(SeqSum(tail), Rat(Len(tail), 1))
           shifted == [i \in 1..Len(v) |-> Sub(v[i], sigma)]
           gaps    == Gaps(shifted)
           total2  == SeqSum(shifted)
           cs2     == CumSum(shifted)
           cand    == Where([i \in 1..Len(gaps) |-> Gt(gaps[i], aFan)])
                      \o Where([i \in 1..Len(shifted) |-> Gt(Div(cs2[i], total2), bFan)])
       IN IF Len(cand) = 0 THEN Raised("ValueError", shifted)
          ELSE GapReturn(1 + IntMin(cand), gaps, shifted)

pcaLocalDimEst(v) ==
  IF ver = "FO" THEN FO(v, alphaFO)
  ELSE IF ver = "fan" THEN fan(v, PFan, alphaFan, betaFan)
  ELSE IF ver = "maxgap" THEN maxgap(v)
  ELSE ratio(v, alphaRatio)

\* ------------------------------------------------------------ inputs
Versions == {"FO", "fan", "maxgap", "ratio"}

Values == {Rat(k, 2) : k \in 0..MaxNum}

IsSpectrum(v) ==
  /\ Len(v) >= 2
  /\ \A i \in 1..Len(v) : ~Gt(Zero, v[i])
  /\ \A i \in 1..(Len(v) - 1) : ~Gt(v[i + 1], v[i])

ExampleSpectrum == <<Rat(10, 1), Rat(9, 1), Rat(1, 1), Rat(9, 10), Rat(1, 10)>>

Spectra ==
  {v \in UNION {[1..d -> Values] : d \in 2..MaxD} : IsSpectrum(v)} \cup {ExampleSpectrum}

AlphaRatios == {Rat(1, 20), Rat(1, 2), Rat(1, 1)}
AlphaFOs    == {Rat(1, 20), Rat(1, 2), Rat(1, 1)}
AlphaFans   == {Rat(2, 1), Rat(10, 1)}
BetaFans    == {Rat(4, 5), Rat(1, 1)}
PFans       == {Rat(1, 2), Rat(19, 20), Rat(1, 1)}

\* the constructor's defaults
DefaultAlphaRatio == Rat(1, 20)
DefaultAlphaFO    == Rat(1, 20)
DefaultAlphaFan   == Rat(10, 1)
DefaultBetaFan    == Rat(4, 5)
DefaultPFan       == Rat(19, 20)

NoCall == [status |-> "none", de |-> 0, gap |-> <<>>]

Outcome(out) == [status |-> out.status, de |-> out.de, gap |-> out.gap]

\* ------------------------------------------------------------ the estimator
\* lPCA() followed by any choice of ver: nothing fitted, no call made
Init ==
  /\ ver \in Versions
  /\ alphaRatio = DefaultAlphaRatio
  /\ alphaFO = DefaultAlphaFO
  /\ alphaFan = DefaultAlphaFan
  /\ betaFan = DefaultBetaFan
  /\ PFan = DefaultPFan
  /\ dimension_ = <<>>
  /\ gap_ = <<>>
  /\ is_fitted_ = FALSE
  /\ spectrum = <<>>
  /\ explained_var = <<>>
  /\ ret = NoCall

\* fit(X): the decomposition yields the spectrum v; the rule selected by ver
\* runs on that array; the fitted attributes are assigned when it returns.
\* spectrum records the array as decomposed, explained_var the same array
\* after the rule ran, ret what _pcaLocalDimEst returned or raised.
fit ==
  \E v \in Spectra :
    LET out == pcaLocalDimEst(v)
    IN /\ spectrum' = v
       /\ explained_var' = out.arr
       /\ ret' = Outcome(out)
       /\ IF out.status = "ok"
          THEN /\ dimension_' = <<out.de>>
               /\ gap_' = IF ver = "ratio" THEN gap_ ELSE out.gap
               /\ is_fitted_' = TRUE
          ELSE UNCHANGED <<dimension_, gap_, is_fitted_>>
       /\ UNCHANGED <<ver, alphaRatio, alphaFO, alphaFan, betaFan, PFan>>

\* ver is given another value between two calls; the previous call's
\* spectrum and result are gone, the fitted attributes stay
setVer ==
  /\ ver' \in Versions \ {ver}
  /\ spectrum' = <<>>
  /\ explained_var' = <<>>
  /\ ret' = NoCall
  /\ UNCHANGED <<alphaRatio, alphaFO, alphaFan, betaFan, PFan,
                 dimension_, gap_, is_fitted_>>

Next == fit \/ setVer

Spec == Init /\ [][Next]_vars

\* ------------------------------------------------------------ one rule call
\* the rules as functions: the estimator is constructed with any documented
\* parameters, the decomposition has produced any valid spectrum
InitRules ==
  /\ ver \in Versions
  /\ alphaRatio \in AlphaRatios
  /\ alphaFO \in AlphaFOs
  /\ alphaFan \in AlphaFans
  /\ betaFan \in BetaFans
  /\ PFan \in PFans
  /\ dimension_ = <<>>
  /\ gap_ = <<>>
  /\ is_fitted_ = FALSE
  /\ spectrum \in Spectra
  /\ explained_var = spectrum
  /\ ret = NoCall

\* _pcaLocalDimEst dispatches to the rule, which runs on explained_var
applyRule ==
  /\ ret.status = "none"
  /\ explained_var # <<>>
  /\ LET out == pcaLocalDimEst(explained_var)
     IN /\ explained_var' = out.arr
        /\ ret' = Outcome(out)
  /\ UNCHANGED <<ver, alphaRatio, alphaFO, alphaFan, betaFan, PFan,
                 dimension_, gap_, is_fitted_, spectrum>>

NextRules == applyRule

SpecRules == InitRules /\ [][NextRules]_vars

\* ------------------------------------------------------------ properties
\* In the formulas below a call has been made when ret.status # "none";
\* ver and the parameters are then those the call ran with, spectrum is the
\* array the decomposition produced and explained_var that array afterwards.
Called == ret.status # "none"

D == Len(spectrum)

\* v[0] + ... + v[k-1]
Prefix(v, k) == SeqSum(SubSeq(v, 1, k))

Least(S) == CHOOSE x \in S : \A y \in S : x <= y

\* the ratio v[i]/v[i+1], i 0-based
Ratio(v, i) == Div(At(v, i), At(v, i + 1))

\* gapAt(de) as the FO claim words it, indices read as the source language does
GapAt(v, de) ==
  IF de - 1 < Len(v) - 1 THEN Div(At(v, de - 1), At(v, de))
  ELSE Ratio(v, Len(v) - 2)

\* gapAt(de) with de = 0 sent to the last ratio like de = d
GapAtOrLast(v, de) ==
  IF 1 <= de /\ de <= Len(v) - 1 THEN Ratio(v, de - 1)
  ELSE Ratio(v, Len(v) - 2)

\* the number of entries strictly above a * v[0]
CountAbove(v, a) == Cardinality({i \in 0..(Len(v) - 1) : Gt(At(v, i), Mul(a, At(v, 0)))})

\* the 1-indexed lengths whose raw prefix sum exceeds a
RawExceeds(v, a) == {k \in 1..Len(v) : Gt(Prefix(v, k), a)}

\* the 0-based indices of the non-NaN ratios that no ratio exceeds
MaxRatios(v) ==
  {i \in 0..(Len(v) - 2) :
     /\ ~IsNaN(Ratio(v, i))
     /\ \A j \in 0..(Len(v) - 2) : ~Gt(Ratio(v, j), Ratio(v, i))}

\* fan, step 1: the indices whose cumulative-variance fraction exceeds P
NoiseStarts(v, P) == {i \in 0..(Len(v) - 1) : Gt(Div(Prefix(v, i + 1), Prefix(v, Len(v))), P)}

\* fan, steps 2 and 3: v - mean(v[r:]) for r the least noise start
Shifted(v, P) ==
  LET r     == Least(NoiseStarts(v, P))
      sigma == Div(Sub(Prefix(v, Len(v)), Prefix(v, r)), Rat(Len(v) - r, 1))
  IN [i \in 1..Len(v) |-> Sub(v[i], sigma)]

\* fan, step 5: the indices at which one of the two stopping conditions holds
Cutoffs(w, a, b) ==
  {i \in 0..(Len(w) - 2) : Gt(Ratio(w, i), a)}
    \cup {i \in 0..(Len(w) - 1) : Gt(Div(Prefix(w, i + 1), Prefix(w, Len(w))), b)}

CutoffExists(v, P, a, b) ==
  /\ NoiseStarts(v, P) # {}
  /\ Cutoffs(Shifted(v, P), a, b) # {}

\* C1: every dimension estimate a rule returns on a valid spectrum lies in 1..d
C1_DimensionInRange ==
  (Called /\ ret.status = "ok") => (1 <= ret.de /\ ret.de <= D)

\* C2: after a call of the fan rule, returned or failed, the spectrum array
\* holds the values it held before the call
C2_FanLeavesSpectrum ==
  (Called /\ ver = "fan") => explained_var = spectrum

\* C3: when neither stopping condition of the fan rule holds at any index
\* of the shifted spectrum, the call ends in the failure NoCutoffFound
C3_FanNoCutoffFound ==
  (/\ Called
   /\ ver = "fan"
   /\ NoiseStarts(spectrum, PFan) # {}
   /\ Cutoffs(Shifted(spectrum, PFan), alphaFan, betaFan) = {})
    => ret.status = "NoCutoffFound"

\* C4: the FO rule with alphaFO = 1 returns dimension 1
C4_FOAlphaOne ==
  (Called /\ ver = "FO" /\ alphaFO = Rat(1, 1)) => (ret.status = "ok" /\ ret.de = 1)

\* C5: the ratio rule with alphaRatio below the first eigenvalue's share
\* v[0]/sum(v) of the total variance, v[0] > 0, returns dimension 1
C5_RatioBelowFirstShare ==
  (/\ Called
   /\ ver = "ratio"
   /\ Gt(At(spectrum, 0), Zero)
   /\ Gt(Div(At(spectrum, 0), Prefix(spectrum, D)), alphaRatio))
    => (ret.status = "ok" /\ ret.de = 1)

\* C6: after a successful fit the estimator exposes that fit's estimate:
\* with ver = ratio a dimension and no gap_, otherwise the dimension_ and
\* the gap_ that fit produced
C6_EstimateOfLatestFit ==
  (Called /\ ret.status = "ok") =>
    /\ is_fitted_
    /\ dimension_ = <<ret.de>>
    /\ gap_ = IF ver = "ratio" THEN <<>> ELSE ret.gap

C9_MaxgapFirstLargest ==
  (Called /\ ver = "maxgap") =>
    /\ ret.status = "ok"
    /\ ret.de = 1 + Least(MaxRatios(spectrum))
    /\ ret.gap = <<Ratio(spectrum, ret.de - 1)>>
    /\ spectrum = ExampleSpectrum => ret.de = 2

\* C10: the fan rule returns exactly when a cutoff exists, and then
\* de = 1 + the least index at which gaps' exceeds alphaFan or the cumulative
\* fraction of v' exceeds betaFan, v' = v - mean(v[r:]), with gapAt(de) taken
\* from the ratios of v'
C10_FanCutoff ==
  (Called /\ ver = "fan") =>
    /\ ret.status = "ok" <=> CutoffExists(spectrum, PFan, alphaFan, betaFan)
    /\ ret.status = "ok" =>
         LET w == Shifted(spectrum, PFan)
         IN /\ ret.de = 1 + Least(Cutoffs(w, alphaFan, betaFan))
            /\ ret.gap = <<GapAt(w, ret.de)>>

C10_Witness ==
  /\ Called
  /\ ver = "fan"
  /\ ret.status = "ok"
  /\ ret.de = 2
  /\ Least(NoiseStarts(spectrum, PFan)) = 1
  /\ ret.gap # <<GapAt(spectrum, ret.de)>>
====
